---- MODULE Spec2Model ----
(***************************************************************************)
(* Model of the prospect-finder pipeline of src/app.py: paginated search,  *)
(* URL de-duplication, the filter chain, the per-domain cap and the        *)
(* per-candidate signal extraction, together with the pure helpers         *)
(* extract_domain, extract_emails, parse_csv_list and                      *)
(* matches_include_keywords.                                               *)
(*                                                                         *)
(* Python strings are modelled as sequences of one-character strings so    *)
(* that lower(), split(), join(), substring tests and code-point ordering  *)
(* are computed, not assumed.                                              *)
(***************************************************************************)
EXTENDS Integers, Sequences, FiniteSets, TLC

VARIABLES
    pc,             \* position of the script: see the actions
    cfg,            \* widget values read at lines 164-180
    exclude_set,    \* line 207
    include_terms,  \* line 208
    loop_index,     \* line 215
    qi,             \* position of q in queries (line 218)
    p,              \* line 219
    resp,           \* outcome of the serpapi_search call in flight
    all_results,    \* line 211
    warned,         \* whether a warning was shown (line 228)
    attempted,      \* (query, page) pairs for which a search call was issued
    progress,       \* values handed to progress.progress, oldest first
    deduped,        \* line 233
    filtered,       \* line 241
    domain_counts,  \* line 255
    per_domain,     \* line 256
    i,              \* index of the record the current for-loop is at
    fetch,          \* what the last page request met
    html,           \* line 275
    rows,           \* line 265
    fn_in,          \* argument of the pure function under test
    fn_out          \* its results

vars == <<pc, cfg, exclude_set, include_terms, loop_index, qi, p, resp, all_results,
          warned, attempted, progress, deduped, filtered, domain_counts, per_domain,
          i, fetch, html, rows, fn_in, fn_out>>

-----------------------------------------------------------------------------
(* Bounds of the model *)

MaxResults == 3
MaxCap == 2
MaxPages == 2
MaxHostLen == 5
MaxMatches == 6

-----------------------------------------------------------------------------
(* Strings *)

\* ord() of the characters the model uses
CodePoint ==
    (" " :> 32) @@ ("+" :> 43) @@ ("," :> 44) @@ ("-" :> 45) @@ ("." :> 46) @@
    ("/" :> 47) @@ ("1" :> 49) @@ ("2" :> 50) @@ ("3" :> 51) @@ ("8" :> 56) @@
    (":" :> 58) @@ (";" :> 59) @@ ("?" :> 63) @@ ("@" :> 64) @@
    ("A" :> 65) @@ ("B" :> 66) @@ ("C" :> 67) @@ ("E" :> 69) @@ ("G" :> 71) @@
    ("H" :> 72) @@ ("S" :> 83) @@ ("T" :> 84) @@ ("U" :> 85) @@
    ("[" :> 91) @@
    ("a" :> 97) @@ ("b" :> 98) @@ ("c" :> 99) @@ ("d" :> 100) @@ ("e" :> 101) @@
    ("g" :> 103) @@ ("h" :> 104) @@ ("i" :> 105) @@ ("l" :> 108) @@ ("m" :> 109) @@
    ("n" :> 110) @@ ("o" :> 111) @@ ("p" :> 112) @@ ("r" :> 114) @@ ("s" :> 115) @@
    ("t" :> 116) @@ ("u" :> 117) @@ ("x" :> 120) @@ ("z" :> 122)

UpperCase == {"A", "B", "C", "D", "E", "F", "G", "H", "I", "J", "K", "L", "M",
              "N", "O", "P", "Q", "R", "S", "T", "U", "V", "W", "X", "Y", "Z"}
LowerCase == {"a", "b", "c", "d", "e", "f", "g", "h", "i", "j", "k", "l", "m",
              "n", "o", "p", "q", "r", "s", "t", "u", "v", "w", "x", "y", "z"}
Digits == {"0", "1", "2", "3", "4", "5", "6", "7", "8", "9"}

\* str.lower() of one character
UpperToLower ==
    [c \in {"A", "B", "C", "D", "E", "F", "G", "H", "I", "J", "K", "L", "M", "N",
            "O", "P", "Q", "R", "S", "T", "U", "V", "W", "X", "Y", "Z"} |->
        CASE c = "A" -> "a" [] c = "B" -> "b" [] c = "C" -> "c" [] c = "D" -> "d"
          [] c = "E" -> "e" [] c = "F" -> "f" [] c = "G" -> "g" [] c = "H" -> "h"
          [] c = "I" -> "i" [] c = "J" -> "j" [] c = "K" -> "k" [] c = "L" -> "l"
          [] c = "M" -> "m" [] c = "N" -> "n" [] c = "O" -> "o" [] c = "P" -> "p"
          [] c = "Q" -> "q" [] c = "R" -> "r" [] c = "S" -> "s" [] c = "T" -> "t"
          [] c = "U" -> "u" [] c = "V" -> "v" [] c = "W" -> "w" [] c = "X" -> "x"
          [] c = "Y" -> "y" [] c = "Z" -> "z"]
LowerChar(c) == IF c \in DOMAIN UpperToLower THEN UpperToLower[c] ELSE c

\* str.lower()
Lower(s) == [k \in 1..Len(s) |-> LowerChar(s[k])]

\* s[a:] (0-based start a)
From(s, a) == SubSeq(s, a + 1, Len(s))

\* t in s
Contains(s, t) ==
    \E k \in 0..(Len(s) - Len(t)) : SubSeq(s, k + 1, k + Len(t)) = t

\* s.startswith(t), s.endswith(t)
StartsWith(s, t) == Len(t) <= Len(s) /\ SubSeq(s, 1, Len(t)) = t
EndsWith(s, t) ==
    Len(t) <= Len(s) /\ SubSeq(s, Len(s) - Len(t) + 1, Len(s)) = t

\* s.find(c): 1-based position of the first c in s, 0 when there is none
Find(s, c) ==
    IF \E k \in 1..Len(s) : s[k] = c
    THEN CHOOSE k \in 1..Len(s) : s[k] = c /\ \A j \in 1..(k - 1) : s[j] # c
    ELSE 0

\* s.split(c): never empty, "" splits to [""]
RECURSIVE Split(_, _)
Split(s, c) ==
    LET k == Find(s, c)
    IN  IF k = 0 THEN <<s>>
        ELSE <<SubSeq(s, 1, k - 1)>> \o Split(From(s, k), c)

\* sep.join(parts)
RECURSIVE Join(_, _)
Join(parts, sep) ==
    IF Len(parts) = 0 THEN <<>>
    ELSE IF Len(parts) = 1 THEN parts[1]
    ELSE parts[1] \o sep \o Join(Tail(parts), sep)

\* s.strip() for the one whitespace character of the model
RECURSIVE LStrip(_)
LStrip(s) == IF Len(s) > 0 /\ s[1] = " " THEN LStrip(Tail(s)) ELSE s
RECURSIVE RStrip(_)
RStrip(s) ==
    IF Len(s) > 0 /\ s[Len(s)] = " " THEN RStrip(SubSeq(s, 1, Len(s) - 1)) ELSE s
Strip(s) == RStrip(LStrip(s))

\* a < b on Python strings: code points, a proper prefix is smaller
RECURSIVE StrLess(_, _)
StrLess(a, b) ==
    IF Len(b) = 0 THEN FALSE
    ELSE IF Len(a) = 0 THEN TRUE
    ELSE IF a[1] = b[1] THEN StrLess(Tail(a), Tail(b))
    ELSE CodePoint[a[1]] < CodePoint[b[1]]

\* seq[:n] and seq[-n:]
Take(seq, n) == SubSeq(seq, 1, IF Len(seq) < n THEN Len(seq) ELSE n)
LastN(seq, n) == SubSeq(seq, IF Len(seq) < n THEN 1 ELSE Len(seq) - n + 1, Len(seq))

\* sorted(S) for a set of strings
RECURSIVE Sorted(_)
Sorted(S) ==
    IF S = {} THEN <<>>
    ELSE LET m == CHOOSE x \in S : \A y \in S \ {x} : StrLess(x, y)
         IN  <<m>> \o Sorted(S \ {m})

\* sequences over S of length at most n
BoundedSeq(S, n) == UNION {[1..k -> S] : k \in 0..n}

Range(seq) == {seq[k] : k \in 1..Len(seq)}

-----------------------------------------------------------------------------
(* extract_domain *)

SchemeChars == LowerCase \cup UpperCase \cup Digits \cup {"+", "-", "."}

\* urlsplit: the text left after a leading "scheme:" is removed
AfterScheme(url) ==
    LET c == Find(url, ":")
    IN  IF /\ c > 1
           /\ url[1] \in LowerCase \cup UpperCase
           /\ \A k \in 1..(c - 1) : url[k] \in SchemeChars
        THEN From(url, c)
        ELSE url

\* _splitnetloc: up to the first of / ? #
NetlocOf(rest) ==
    IF StartsWith(rest, <<"/", "/">>)
    THEN LET body == From(rest, 2)
             ends == {k \in 1..Len(body) : body[k] \in {"/", "?", "#"}}
             stop == IF ends = {} THEN Len(body) + 1
                     ELSE CHOOSE k \in ends : \A j \in ends : k <= j
         IN  SubSeq(body, 1, stop - 1)
    ELSE <<>>

\* urlparse(url).netloc
UrlNetloc(url) == NetlocOf(AfterScheme(url))

\* urlparse raises ValueError("Invalid IPv6 URL"): a "[" without its "]"
\* (the model has no "]")
UrlParseRaises(url) == "[" \in Range(UrlNetloc(url))

\* extract_domain keeping the last three labels
extract_domain_three(url) ==
    IF UrlParseRaises(url) THEN <<>>
    ELSE LET netloc == Lower(UrlNetloc(url))
             parts == Split(netloc, ".")
         IN  IF Len(parts) >= 2 THEN Join(LastN(parts, 3), <<".">>) ELSE netloc

\* lines 75-81
extract_domain(url) ==
    IF UrlParseRaises(url) THEN <<>>
    ELSE LET netloc == Lower(UrlNetloc(url))
             parts == Split(netloc, ".")
         IN  IF Len(parts) >= 2 THEN Join(LastN(parts, 2), <<".">>) ELSE netloc

\* lines 83-88
domain_allowed(domain, allowed_tlds_only) ==
    IF domain = <<>> THEN FALSE
    ELSE IF allowed_tlds_only
         THEN \/ EndsWith(domain, <<".", "c", "o", "m">>)
              \/ EndsWith(domain, <<".", "o", "r", "g">>)
         ELSE TRUE

-----------------------------------------------------------------------------
(* Configuration parsing and the include-keyword test *)

\* [x for x in seq if keep(x)]
RECURSIVE NonEmptyOnly(_)
NonEmptyOnly(seq) ==
    IF Len(seq) = 0 THEN <<>>
    ELSE IF Head(seq) = <<>> THEN NonEmptyOnly(Tail(seq))
    ELSE <<Head(seq)>> \o NonEmptyOnly(Tail(seq))

\* lines 150-151: [t.strip().lower() for t in s.split(",") if t.strip()]
parse_csv_list(s) ==
    LET cells == Split(s, ",")
        stripped == [k \in 1..Len(cells) |-> Lower(Strip(cells[k]))]
    IN  NonEmptyOnly(stripped)

\* line 156
Haystack(rec) ==
    Lower(Join(<<rec.title, rec.url, rec.snippet>>, <<" ">>))

\* matches_include_keywords without the lower() of line 156
matches_include_keywords_cased(rec, terms) ==
    IF Len(terms) = 0 THEN TRUE
    ELSE \E k \in 1..Len(terms) :
             Contains(Join(<<rec.title, rec.url, rec.snippet>>, <<" ">>), terms[k])

\* lines 153-157
matches_include_keywords(rec, terms) ==
    IF Len(terms) = 0 THEN TRUE
    ELSE \E k \in 1..Len(terms) : Contains(Haystack(rec), terms[k])

\* lines 140-148: one query per template, each made of the stripped niche
search_queries(niche) ==
    LET b == Strip(niche)
    IN  << <<"write for us", b>>, <<"guest post", b>>, <<"contribute", b>>,
           <<"submit an article", b>>, <<"editorial guidelines", b>> >>

-----------------------------------------------------------------------------
(* The search provider *)

\* item.get(key, "")
Get(item, key) == IF key \in DOMAIN item THEN item[key] ELSE <<>>

\* lines 106-113: the organic results normalised to title/url/snippet
Normalise(items) ==
    [k \in 1..Len(items) |->
        [title |-> Get(items[k], "title"),
         url |-> Get(items[k], "link"),
         snippet |-> Get(items[k], "snippet")]]

\* lines 90-113: a transport error, a non-success status (raise_for_status)
\* and an unreadable body all raise; otherwise the normalised results
serpapi_search(outcome) ==
    IF outcome.kind = "error" THEN [raised |-> TRUE, results |-> <<>>]
    ELSE IF outcome.status >= 400 THEN [raised |-> TRUE, results |-> <<>>]
    ELSE [raised |-> FALSE, results |-> Normalise(outcome.items)]

-----------------------------------------------------------------------------
(* Page fetch and signal extraction *)

\* A page text is described by what the two scanners find in it: the
\* matches of EMAIL_REGEX in document order and the (text, href) pairs of
\* its anchors; empty is the text "".
NoText == [empty |-> TRUE, matches |-> <<>>, anchors |-> <<>>]

\* lines 115-122
fetch_html(outcome) ==
    IF outcome.kind = "error" THEN NoText
    ELSE IF outcome.status >= 400 THEN NoText
    ELSE outcome.text

\* extract_emails returning the matches as found
extract_emails_unsorted(text) == text.matches

\* lines 72-73: sorted({m.group(0) for m in EMAIL_REGEX.finditer(text)})
extract_emails(text) == Sorted(Range(text.matches))

\* scheme://netloc of an absolute URL
Origin(url) ==
    LET rest == AfterScheme(url)
    IN  SubSeq(url, 1, Len(url) - Len(rest)) \o <<"/", "/">> \o UrlNetloc(url)

HasScheme(url) == AfterScheme(url) # url

\* urljoin(base, href) for the hrefs of the model: an absolute href is
\* kept, a root-relative one replaces the path of base
urljoin(base, href) ==
    IF HasScheme(href) THEN href ELSE Origin(base) \o href

\* urljoin raises what urlparse(href) raises
UrlJoinRaises(href) == UrlParseRaises(href)

\* lines 124-130
extract_links(text, base_url) ==
    [k \in 1..Len(text.anchors) |->
        [txt |-> Lower(Strip(text.anchors[k].text)),
         url |-> urljoin(base_url, text.anchors[k].href)]]

ExtractLinksRaises(text) ==
    \E k \in 1..Len(text.anchors) : UrlJoinRaises(text.anchors[k].href)

\* lines 22-25
CONTACT_KEYWORDS ==
    << <<"c","o","n","t","a","c","t">>,
       <<"c","o","n","t","a","c","t"," ","u","s">>,
       <<"a","b","o","u","t">>,
       <<"e","d","i","t","o","r">>,
       <<"p","i","t","c","h">>,
       <<"m","e","d","i","a">>,
       <<"p","r","e","s","s">>,
       <<"s","u","b","m","i","t">>,
       <<"g","u","i","d","e","l","i","n","e","s">> >>

\* lines 133-137: the loop over links from position k
RECURSIVE ContactLoop(_, _, _, _)
ContactLoop(links, k, seen, out) ==
    IF k > Len(links) THEN out
    ELSE IF /\ \E w \in 1..Len(CONTACT_KEYWORDS) :
                  Contains(links[k].txt, CONTACT_KEYWORDS[w])
            /\ links[k].url \notin seen
         THEN ContactLoop(links, k + 1, seen \cup {links[k].url},
                          Append(out, links[k].url))
         ELSE ContactLoop(links, k + 1, seen, out)

\* lines 132-138
find_candidate_contact_links(links) == Take(ContactLoop(links, 1, {}, <<>>), 10)

\* lines 281-288
Row(item, emails, contacts) ==
    [domain |-> extract_domain(item.url),
     url |-> item.url,
     title |-> item.title,
     snippet |-> item.snippet,
     emails |-> Join(Take(emails, 5), <<";">>),
     contact_links |-> Join(contacts, <<";">>)]

-----------------------------------------------------------------------------
(* The loops of the main workflow *)

\* line 236 without the seen_urls test
DedupeKeepsUnseen(url, seen) == url # <<>>

\* line 236: if url and url not in seen_urls
DedupeKeeps(url, seen) == url # <<>> /\ url \notin seen

\* lines 233-238 from position k
RECURSIVE DedupeLoop(_, _, _, _)
DedupeLoop(results, k, seen, out) ==
    IF k > Len(results) THEN out
    ELSE IF DedupeKeeps(results[k].url, seen)
         THEN DedupeLoop(results, k + 1, seen \cup {results[k].url},
                         Append(out, results[k]))
         ELSE DedupeLoop(results, k + 1, seen, out)

\* the filter loop without the empty-domain tests of lines 244 and 84
FilterKeepsAnyDomain(r, excl, only_com_org, terms) ==
    LET d == extract_domain(r.url)
    IN  IF excl # {} /\ \E ex \in excl : Contains(d, ex) THEN FALSE
        ELSE IF /\ only_com_org
                /\ ~EndsWith(d, <<".", "c", "o", "m">>)
                /\ ~EndsWith(d, <<".", "o", "r", "g">>) THEN FALSE
        ELSE IF ~matches_include_keywords(r, terms) THEN FALSE
        ELSE TRUE

\* lines 243-251: the four tests of the filter loop on one record
FilterKeeps(r, excl, only_com_org, terms) ==
    LET d == extract_domain(r.url)
    IN  IF d = <<>> THEN FALSE
        ELSE IF excl # {} /\ \E ex \in excl : Contains(d, ex) THEN FALSE
        ELSE IF ~domain_allowed(d, only_com_org) THEN FALSE
        ELSE IF ~matches_include_keywords(r, terms) THEN FALSE
        ELSE TRUE

\* lines 241-252 from position k
RECURSIVE FilterLoop(_, _, _, _, _, _)
FilterLoop(recs, k, out, excl, only_com_org, terms) ==
    IF k > Len(recs) THEN out
    ELSE FilterLoop(recs, k + 1,
                    IF FilterKeeps(recs[k], excl, only_com_org, terms)
                    THEN Append(out, recs[k]) ELSE out,
                    excl, only_com_org, terms)

\* line 259 reading a count that is never there
CountOfNone(counts, d) == 0

\* line 259: domain_counts.get(d, 0)
CountOf(counts, d) == IF d \in DOMAIN counts THEN counts[d] ELSE 0

\* line 260 with <= for <
CapAdmitsInclusive(c, max_per_domain) == c <= max_per_domain

\* line 260
CapAdmits(c, max_per_domain) == c < max_per_domain

\* line 222 computed from the number of the call, not its index
SearchProgressNext(index, total) ==
    LET v == ((index + 1) * 30) \div (IF total < 1 THEN 1 ELSE total)
    IN  IF v > 100 THEN 100 ELSE v

\* line 222: min(100, int((loop_index / max(1, total_loops)) * 30)); the
\* float product truncates to the exact quotient for every total of 5..25
SearchProgress(index, total) ==
    LET v == (index * 30) \div (IF total < 1 THEN 1 ELSE total)
    IN  IF v > 100 THEN 100 ELSE v

\* line 272: min(100, 30 + int(i / max(1, total) * 70)); the float product
\* truncates to the exact quotient for every total below 70
VisitProgress(n, total) ==
    LET v == 30 + (n * 70) \div (IF total < 1 THEN 1 ELSE total)
    IN  IF v > 100 THEN 100 ELSE v

\* lines 225-228 losing the earlier results when the call raises
AfterCallReset(results, r) == IF r.raised THEN <<>> ELSE results \o r.results

\* lines 225-228: the results list after the call returned or raised
AfterCall(results, r) == IF r.raised THEN results ELSE results \o r.results

-----------------------------------------------------------------------------
(* Inputs *)

Http == <<"h", ":", "/", "/">>
Guest == <<"g", "u", "e", "s", "t">>
UrlA1 == Http \o <<"a", ".", "c", "o", "m", "/", "1">>
UrlA2 == <<"H", ":", "/", "/", "S", ".", "A", ".", "c", "o", "m", "/", "2">>
UrlWeb == Http \o <<"a", "b", ".", "c", "o", "m", "/", "g">>
UrlLocal == Http \o <<"l", "o", "c", "a", "l", "h", "o", "s", "t", "/">> \o Guest

\* Provider items; a key may be missing
ItemA1 == ("title" :> <<"G", "u", "e", "s", "t">>) @@ ("link" :> UrlA1)
          @@ ("snippet" :> <<>>)
ItemA1again == ("title" :> <<"x">>) @@ ("link" :> UrlA1)
ItemA2 == ("link" :> UrlA2) @@ ("snippet" :> <<"G", "U", "E", "S", "T">>)
ItemWeb == ("title" :> <<"x">>) @@ ("link" :> UrlWeb) @@ ("snippet" :> <<>>)
ItemLocal == ("title" :> <<>>) @@ ("link" :> UrlLocal)
ItemNoLink == ("title" :> Guest)
ItemBare == ("title" :> Guest)
            @@ ("link" :> <<"a", ".", "c", "o", "m", "/", "x">>)

ItemPool == {ItemA1, ItemA1again, ItemA2, ItemWeb, ItemLocal, ItemNoLink,
             ItemBare}
RunItemPool == {ItemA1, ItemA2, ItemLocal, ItemNoLink, ItemBare}

\* What one search call can meet
SearchOutcomes(room) ==
    {[kind |-> "error"], [kind |-> "http", status |-> 500, items |-> <<>>]}
    \cup {[kind |-> "http", status |-> 200, items |-> its] :
            its \in {s \in BoundedSeq(RunItemPool, 1) : Len(s) <= room}}

Mail(c) == <<c, "@", "b", ".", "c", "o">>
EmailPool == {Mail("A"), Mail("a"), Mail("a") \o <<"m">>, Mail("b"), Mail("c"),
              Mail("d")}

PageGood ==
    [empty |-> FALSE,
     matches |-> <<Mail("a"), Mail("A"), Mail("a")>>,
     anchors |-> <<[text |-> <<" ", "C", "o", "n", "t", "a", "c", "t", " ">>,
                    href |-> <<"/", "c">>],
                   [text |-> <<"x">>, href |-> Http \o <<"z", ".", "c", "o", "m">>],
                   [text |-> <<"a", "b", "o", "u", "t">>, href |-> <<"/", "c">>],
                   [text |-> <<"p", "r", "e", "s", "s">>,
                    href |-> Http \o <<"z", ".", "c", "o", "m">>]>>]

\* an anchor whose href urljoin cannot parse
PageBadHref ==
    [empty |-> FALSE,
     matches |-> <<Mail("b")>>,
     anchors |-> <<[text |-> <<"p", "r", "e", "s", "s">>, href |-> Http \o <<"[">>]>>]

PagePool == {NoText, PageGood, PageBadHref}

\* What one page fetch can meet
FetchOutcomes ==
    {[kind |-> "error"], [kind |-> "http", status |-> 404, text |-> PageGood]}
    \cup {[kind |-> "http", status |-> 200, text |-> t] : t \in PagePool}

ExcludeCsv == <<"B", ".", "c", "o", "m", ",", " ">>
IncludeCsv == <<" ", "G", "u", "e", "s", "t", ",", "z">>
Niche == <<" ", "s", "e", "o">>

NoFetch == [kind |-> "none"]
NoResp == [raised |-> FALSE, results |-> <<>>, none |-> TRUE]

-----------------------------------------------------------------------------
(* The run: lines 191-291 *)

Queries == search_queries(cfg.niche)
TotalLoops == Len(Queries) * cfg.pages

Emit(phase, value) == Append(progress, [phase |-> phase, value |-> value])

\* lines 192-197: a missing key or a blank niche stops the script
StartRejected ==
    /\ pc = "idle"
    /\ cfg.serp_key = <<>> \/ Strip(cfg.niche) = <<>>
    /\ pc' = "stopped"
    /\ UNCHANGED <<cfg, exclude_set, include_terms, loop_index, qi, p, resp,
                   all_results, warned, attempted, progress, deduped, filtered,
                   domain_counts, per_domain, i, fetch, html, rows, fn_in, fn_out>>

\* lines 199-215
StartRun ==
    /\ pc = "idle"
    /\ cfg.serp_key # <<>>
    /\ Strip(cfg.niche) # <<>>
    /\ exclude_set' = Range(parse_csv_list(cfg.excludes_str))
    /\ include_terms' = parse_csv_list(cfg.include_str)
    /\ progress' = Emit("prepare", 0)
    /\ all_results' = <<>>
    /\ warned' = FALSE
    /\ loop_index' = 0
    /\ qi' = 1
    /\ p' = 0
    /\ pc' = "search"
    /\ UNCHANGED <<cfg, resp, attempted, deduped, filtered, domain_counts,
                   per_domain, i, fetch, html, rows, fn_in, fn_out>>

\* lines 218-226: progress is reported, then the provider is called
SearchCall ==
    /\ pc = "search"
    /\ progress' = Emit("search", SearchProgress(loop_index, TotalLoops))
    /\ attempted' = Append(attempted, [q |-> Queries[qi], page |-> p])
    /\ \E o \in SearchOutcomes(MaxResults - Len(all_results)) :
           resp' = serpapi_search(o)
    /\ pc' = "search_ret"
    /\ UNCHANGED <<cfg, exclude_set, include_terms, loop_index, qi, p,
                   all_results, warned, deduped, filtered, domain_counts, per_domain,
                   i, fetch, html, rows, fn_in, fn_out>>

\* lines 226-230 and the two loop headers: the results are appended or the
\* exception is caught, then the loops move on or end
SearchReturn ==
    /\ pc = "search_ret"
    /\ all_results' = AfterCall(all_results, resp)
    /\ warned' = (warned \/ resp.raised)
    /\ loop_index' = loop_index + 1
    /\ resp' = NoResp
    /\ IF p + 1 < cfg.pages
       THEN qi' = qi /\ p' = p + 1 /\ pc' = "search"
       ELSE IF qi < Len(Queries)
            THEN qi' = qi + 1 /\ p' = 0 /\ pc' = "search"
            ELSE qi' = qi /\ p' = p /\ pc' = "dedupe"
    /\ UNCHANGED <<cfg, exclude_set, include_terms, attempted, progress,
                   deduped, filtered, domain_counts, per_domain, i, fetch, html, rows,
                   fn_in, fn_out>>

\* lines 232-238
Dedupe ==
    /\ pc = "dedupe"
    /\ deduped' = DedupeLoop(all_results, 1, {}, <<>>)
    /\ pc' = "filter"
    /\ UNCHANGED <<cfg, exclude_set, include_terms, loop_index, qi, p, resp,
                   all_results, warned, attempted, progress, filtered, domain_counts,
                   per_domain, i, fetch, html, rows, fn_in, fn_out>>

\* lines 240-256
Filter ==
    /\ pc = "filter"
    /\ filtered' = FilterLoop(deduped, 1, <<>>, exclude_set, cfg.only_com_org,
                              include_terms)
    /\ domain_counts' = <<>>
    /\ per_domain' = <<>>
    /\ i' = 1
    /\ pc' = "cap"
    /\ UNCHANGED <<cfg, exclude_set, include_terms, loop_index, qi, p, resp,
                   all_results, warned, attempted, progress, deduped, fetch, html, rows,
                   fn_in, fn_out>>

\* lines 257-262: one iteration of the per-domain cap
CapStep ==
    /\ pc = "cap"
    /\ i <= Len(filtered)
    /\ LET r == filtered[i]
           d == extract_domain(r.url)
           c == CountOf(domain_counts, d)
       IN  IF CapAdmits(c, cfg.max_per_domain)
           THEN /\ per_domain' = Append(per_domain, r)
                /\ domain_counts' =
                       [x \in DOMAIN domain_counts \cup {d} |->
                           IF x = d THEN c + 1 ELSE domain_counts[x]]
           ELSE UNCHANGED <<per_domain, domain_counts>>
    /\ i' = i + 1
    /\ UNCHANGED <<pc, cfg, exclude_set, include_terms, loop_index, qi, p,
                   resp, all_results, warned, attempted, progress, deduped, filtered,
                   fetch, html, rows, fn_in, fn_out>>

\* lines 264-266: the cap loop is over
CapDone ==
    /\ pc = "cap"
    /\ i > Len(filtered)
    /\ rows' = <<>>
    /\ i' = 1
    /\ pc' = "visit"
    /\ UNCHANGED <<cfg, exclude_set, include_terms, loop_index, qi, p, resp,
                   all_results, warned, attempted, progress, deduped, filtered,
                   domain_counts, per_domain, fetch, html, fn_in, fn_out>>

\* lines 267-275: progress is reported, then the page is fetched
VisitFetch ==
    /\ pc = "visit"
    /\ i <= Len(per_domain)
    /\ progress' = Emit("visit", VisitProgress(i, Len(per_domain)))
    /\ \E o \in FetchOutcomes : fetch' = o /\ html' = fetch_html(o)
    /\ pc' = "visit_ret"
    /\ UNCHANGED <<cfg, exclude_set, include_terms, loop_index, qi, p, resp,
                   all_results, warned, attempted, deduped, filtered, domain_counts,
                   per_domain, i, rows, fn_in, fn_out>>

\* lines 276-280: an exception of urljoin is caught nowhere and ends the
\* script
VisitRaise ==
    /\ pc = "visit_ret"
    /\ ~html.empty
    /\ ExtractLinksRaises(html)
    /\ pc' = "raised"
    /\ UNCHANGED <<cfg, exclude_set, include_terms, loop_index, qi, p, resp,
                   all_results, warned, attempted, progress, deduped, filtered,
                   domain_counts, per_domain, i, fetch, html, rows, fn_in, fn_out>>

\* lines 276-289
VisitAppend ==
    /\ pc = "visit_ret"
    /\ html.empty \/ ~ExtractLinksRaises(html)
    /\ LET item == per_domain[i]
           emails == IF ~html.empty THEN extract_emails(html) ELSE <<>>
           contacts == IF ~html.empty
                       THEN find_candidate_contact_links(
                                extract_links(html, item.url))
                       ELSE <<>>
       IN  rows' = Append(rows, Row(item, emails, contacts))
    /\ i' = i + 1
    /\ pc' = "visit"
    /\ UNCHANGED <<cfg, exclude_set, include_terms, loop_index, qi, p, resp,
                   all_results, warned, attempted, progress, deduped, filtered,
                   domain_counts, per_domain, fetch, html, fn_in, fn_out>>

\* line 291 on: the loop is over and the rows are shown
VisitDone ==
    /\ pc = "visit"
    /\ i > Len(per_domain)
    /\ pc' = "done"
    /\ UNCHANGED <<cfg, exclude_set, include_terms, loop_index, qi, p, resp,
                   all_results, warned, attempted, progress, deduped, filtered,
                   domain_counts, per_domain, i, fetch, html, rows, fn_in, fn_out>>

-----------------------------------------------------------------------------
(* Specifications *)

Config(key, niche, pages, excludes, only, includes, cap) ==
    [serp_key |-> key, niche |-> niche, pages |-> pages,
     excludes_str |-> excludes, only_com_org |-> only,
     include_str |-> includes, max_per_domain |-> cap]

\* The script before "Run search" is pressed
Idle(c) ==
    /\ pc = "idle"
    /\ cfg = c
    /\ exclude_set = {}
    /\ include_terms = <<>>
    /\ loop_index = 0
    /\ qi = 1
    /\ p = 0
    /\ resp = NoResp
    /\ all_results = <<>>
    /\ warned = FALSE
    /\ attempted = <<>>
    /\ progress = <<>>
    /\ deduped = <<>>
    /\ filtered = <<>>
    /\ domain_counts = <<>>
    /\ per_domain = <<>>
    /\ i = 1
    /\ fetch = NoFetch
    /\ html = NoText
    /\ rows = <<>>
    /\ fn_out = <<>>

RunConfigs ==
    {Config(key, niche, pages, ExcludeCsv, only, IncludeCsv, cap) :
        key \in {<<>>, <<"x">>}, niche \in {<<" ">>, Niche},
        pages \in 1..MaxPages, only \in BOOLEAN, cap \in {1}}

Init == \E c \in RunConfigs : Idle(c) /\ fn_in = <<>>

Next ==
    \/ StartRejected
    \/ StartRun
    \/ SearchCall
    \/ SearchReturn
    \/ Dedupe
    \/ Filter
    \/ CapStep
    \/ CapDone
    \/ VisitFetch
    \/ VisitRaise
    \/ VisitAppend
    \/ VisitDone

Spec == Init /\ [][Next]_vars

-----------------------------------------------------------------------------
(* The stages after the search, over wider inputs *)

\* range(pages) for each query: the calls of a whole search phase
AllCalls(queries, pages) ==
    [k \in 1..(Len(queries) * pages) |->
        [q |-> queries[((k - 1) \div pages) + 1], page |-> (k - 1) % pages]]

\* The script at line 232, the search phase over, with `results` collected
AfterSearch(c, results) ==
    /\ pc = "dedupe"
    /\ cfg = c
    /\ exclude_set = Range(parse_csv_list(c.excludes_str))
    /\ include_terms = parse_csv_list(c.include_str)
    /\ loop_index = Len(search_queries(c.niche)) * c.pages
    /\ qi = Len(search_queries(c.niche))
    /\ p = c.pages - 1
    /\ resp = NoResp
    /\ all_results = results
    /\ warned = FALSE
    /\ attempted = AllCalls(search_queries(c.niche), c.pages)
    /\ progress =
           <<[phase |-> "prepare", value |-> 0]>> \o
           [k \in 1..loop_index |->
               [phase |-> "search",
                value |-> SearchProgress(k - 1, loop_index)]]
    /\ deduped = <<>>
    /\ filtered = <<>>
    /\ domain_counts = <<>>
    /\ per_domain = <<>>
    /\ i = 1
    /\ fetch = NoFetch
    /\ html = NoText
    /\ rows = <<>>
    /\ fn_in = <<>>
    /\ fn_out = <<>>

FilterConfigs ==
    {Config(<<"x">>, Niche, 1, excludes, only, includes, cap) :
        excludes \in {<<>>, ExcludeCsv}, only \in BOOLEAN,
        includes \in {<<>>, IncludeCsv}, cap \in 1..MaxCap}

InitFilter ==
    \E c \in FilterConfigs :
        \E items \in BoundedSeq(ItemPool, MaxResults) :
            AfterSearch(c, Normalise(items))

NextFilter == Dedupe \/ Filter \/ CapStep \/ CapDone

SpecFilter == InitFilter /\ [][NextFilter]_vars

-----------------------------------------------------------------------------
(* One page visit, over every text the e-mail scanner can meet *)

VisitConfig == Config(<<"x">>, Niche, 1, ExcludeCsv, TRUE, IncludeCsv, 1)
VisitItem == Normalise(<<ItemA1>>)[1]

VisitExcludes == Range(parse_csv_list(VisitConfig.excludes_str))
VisitIncludes == parse_csv_list(VisitConfig.include_str)
VisitQueries == search_queries(Niche)
VisitDeduped == DedupeLoop(<<VisitItem>>, 1, {}, <<>>)
VisitFiltered == FilterLoop(VisitDeduped, 1, <<>>, VisitExcludes, TRUE, VisitIncludes)
VisitCounts == [d \in {extract_domain(VisitItem.url)} |-> 1]
VisitLog ==
    <<[phase |-> "prepare", value |-> 0]>> \o
    [k \in 1..Len(VisitQueries) |->
        [phase |-> "search", value |-> SearchProgress(k - 1, Len(VisitQueries))]] \o
    <<[phase |-> "visit", value |-> VisitProgress(1, 1)]>>

\* The script at line 276 for the only candidate of a run
AtVisitReturn(text) ==
    /\ pc = "visit_ret"
    /\ cfg = VisitConfig
    /\ exclude_set = VisitExcludes
    /\ include_terms = VisitIncludes
    /\ loop_index = Len(VisitQueries)
    /\ qi = Len(VisitQueries)
    /\ p = 0
    /\ resp = NoResp
    /\ all_results = <<VisitItem>>
    /\ warned = FALSE
    /\ attempted = AllCalls(VisitQueries, 1)
    /\ progress = VisitLog
    /\ deduped = VisitDeduped
    /\ filtered = VisitFiltered
    /\ domain_counts = VisitCounts
    /\ per_domain = <<VisitItem>>
    /\ i = 1
    /\ fetch = [kind |-> "http", status |-> 200, text |-> text]
    /\ html = text
    /\ rows = <<>>
    /\ fn_in = <<>>
    /\ fn_out = <<>>

InitEmails ==
    \E m \in BoundedSeq(EmailPool, MaxMatches) :
        AtVisitReturn([empty |-> FALSE, matches |-> m, anchors |-> <<>>])

NextEmails == VisitAppend \/ VisitDone

SpecEmails == InitEmails /\ [][NextEmails]_vars

-----------------------------------------------------------------------------
(* extract_domain on generated URLs, applied once and then to its result *)

UrlPrefixes ==
    {<<>>, <<"/", "/">>, <<"h", ":">>, <<"h", ":", "/">>, Http,
     <<"H", ":", "/", "/">>}
HostChars == {"a", "B", ".", "["}
UrlSuffixes == {<<>>, <<":", "8">>, <<"/", "a", ".", "a">>, <<"?", "a", ".", "a">>}

UrlOf(parts) == parts.pre \o parts.host \o parts.post

InitDomain ==
    /\ Idle(VisitConfig)
    /\ \E pre \in UrlPrefixes, host \in BoundedSeq(HostChars, MaxHostLen),
          post \in UrlSuffixes :
           fn_in = [pre |-> pre, host |-> host, post |-> post]

ApplyDomain ==
    /\ pc = "idle"
    /\ fn_out = <<>>
    /\ fn_out' = <<extract_domain(UrlOf(fn_in))>>
    /\ UNCHANGED <<pc, cfg, exclude_set, include_terms, loop_index, qi, p,
                   resp, all_results, warned, attempted, progress, deduped, filtered,
                   domain_counts, per_domain, i, fetch, html, rows, fn_in>>

ApplyDomainAgain ==
    /\ pc = "idle"
    /\ Len(fn_out) = 1
    /\ fn_out' = Append(fn_out, extract_domain(fn_out[1]))
    /\ UNCHANGED <<pc, cfg, exclude_set, include_terms, loop_index, qi, p,
                   resp, all_results, warned, attempted, progress, deduped, filtered,
                   domain_counts, per_domain, i, fetch, html, rows, fn_in>>

NextDomain == ApplyDomain \/ ApplyDomainAgain

SpecDomain == InitDomain /\ [][NextDomain]_vars

-----------------------------------------------------------------------------
(* Properties *)

PostDedupe == pc \in {"filter", "cap", "visit", "visit_ret", "done", "raised"}
PostFilter == pc \in {"cap", "visit", "visit_ret", "done", "raised"}
PostCap == pc \in {"visit", "visit_ret", "done", "raised"}

Urls(seq) == {seq[k].url : k \in 1..Len(seq)}
FirstAt(seq, u) ==
    CHOOSE k \in 1..Len(seq) :
        seq[k].url = u /\ \A j \in 1..(k - 1) : seq[j].url # u
Dots(s) == Cardinality({k \in 1..Len(s) : s[k] = "."})
DomainOf(r) == extract_domain(r.url)

\* seq without the entries outside S, order kept
RECURSIVE Restrict(_, _)
Restrict(seq, S) ==
    IF Len(seq) = 0 THEN <<>>
    ELSE IF Head(seq) \in S THEN <<Head(seq)>> \o Restrict(Tail(seq), S)
    ELSE Restrict(Tail(seq), S)

\* deduped holds each url of U once, as the first record that carried it,
\* in the order of those first records
C1_Shape(U) ==
    /\ \A a, b \in 1..Len(deduped) : a # b => deduped[a].url # deduped[b].url
    /\ \A u \in U : Cardinality({k \in 1..Len(deduped) : deduped[k].url = u}) = 1
    /\ Urls(deduped) \subseteq Urls(all_results)
    /\ \A k \in 1..Len(deduped) :
           deduped[k] = all_results[FirstAt(all_results, deduped[k].url)]
    /\ \A a, b \in 1..Len(deduped) :
           a < b => FirstAt(all_results, deduped[a].url)
                        < FirstAt(all_results, deduped[b].url)

\* C1 as stated: the de-duplicated list has no two entries with the same
\* url, holds every distinct url of the input exactly once, and keeps the
\* order of first occurrence.
C1_AsStated == PostDedupe => C1_Shape(Urls(all_results))

\* C1, amended: the de-duplicated list has no two entries with the same url,
\* holds every distinct NON-EMPTY url of the input exactly once (a result
\* without a url is dropped), as the first record that carried it, in the
\* order of first occurrence.
C1_Dedupe ==
    PostDedupe =>
        /\ C1_Shape(Urls(all_results) \ {<<>>})
        /\ <<>> \notin Urls(deduped)

C1_Witness ==
    /\ pc = "filter"
    /\ Len(all_results) = 3
    /\ all_results[1].url = all_results[3].url
    /\ all_results[1] # all_results[3]
    /\ Len(deduped) = 2

\* C2: at every point of the per-domain cap loop, and after it, the count
\* kept for a domain is the number of candidates kept for it and is at most
\* max_per_domain, and so is the number of candidates of every domain.
C2_Cap ==
    /\ \A d \in DOMAIN domain_counts :
           /\ domain_counts[d] <= cfg.max_per_domain
           /\ domain_counts[d] =
                  Cardinality({k \in 1..Len(per_domain) : DomainOf(per_domain[k]) = d})
    /\ \A k \in 1..Len(per_domain) :
           /\ DomainOf(per_domain[k]) \in DOMAIN domain_counts
           /\ Cardinality({j \in 1..Len(per_domain) :
                              DomainOf(per_domain[j]) = DomainOf(per_domain[k])})
                  <= cfg.max_per_domain

C2_Witness ==
    /\ pc = "cap"
    /\ i > Len(filtered)
    /\ Len(per_domain) < Len(filtered)
    /\ \E d \in DOMAIN domain_counts : domain_counts[d] = cfg.max_per_domain

SearchFailed(o) == o.kind = "error" \/ o.status >= 400

C3_Calls ==
    pc \in {"search", "search_ret", "dedupe", "filter", "cap", "visit",
            "visit_ret", "done", "raised"} =>
        /\ Len(attempted) <= TotalLoops
        /\ \A a \in 1..Len(Queries), pg \in 0..(cfg.pages - 1) :
               LET k == (a - 1) * cfg.pages + pg + 1
               IN  k <= Len(attempted) =>
                       attempted[k] = [q |-> Queries[a], page |-> pg]
        /\ pc \notin {"search", "search_ret"} => Len(attempted) = TotalLoops
        /\ pc = "search" => ENABLED SearchCall
        /\ pc = "search_ret" => ENABLED SearchReturn
        /\ pc = "dedupe" => ENABLED Dedupe

C3_Step ==
    /\ pc = "search_ret" =>
           /\ pc' \in {"search", "dedupe"}
           /\ resp.raised => all_results' = all_results
           /\ ~resp.raised => all_results' = all_results \o resp.results
           /\ pc' = "dedupe" <=> Len(attempted) = TotalLoops
    /\ pc # "search_ret" => all_results' = all_results
    /\ pc = "dedupe" => pc' = "filter"
    /\ pc = "filter" => pc' = "cap"
    /\ pc = "cap" => pc' \in {"cap", "visit"}
    /\ pc = "search" =>
           \A o \in SearchOutcomes(1) :
               serpapi_search(o).raised <=> SearchFailed(o)

\* C3: a search call that fails adds nothing to the results and the run
\* goes on: whatever calls fail, a call is issued for every (query, page)
\* pair once, in order, the results of the calls that succeed are appended
\* and kept, and the run moves on to de-duplication, filtering and the cap.
C3_SearchIsolation == []C3_Calls /\ [][C3_Step]_vars

C3_Witness ==
    /\ pc = "done"
    /\ warned
    /\ cfg.pages = 2
    /\ Len(rows) >= 1
    /\ Len(all_results) = 3

FetchFailed(o) == o.kind = "error" \/ (o.kind = "http" /\ o.status >= 400)

C4_Rows ==
    pc \in {"visit", "visit_ret", "done", "raised"} =>
        /\ Len(rows) = i - 1
        /\ Len(rows) <= Len(per_domain)
        /\ pc = "done" => Len(rows) = Len(per_domain)
        /\ \A k \in 1..Len(rows) :
               /\ rows[k].url = per_domain[k].url
               /\ rows[k].title = per_domain[k].title
               /\ rows[k].snippet = per_domain[k].snippet
               /\ rows[k].domain = DomainOf(per_domain[k])

C4_Step ==
    /\ pc = "visit_ret" => html.empty \/ ~FetchFailed(fetch)
    /\ pc = "visit_ret" /\ FetchFailed(fetch) =>
           /\ pc' = "visit"
           /\ i' = i + 1
           /\ rows' = Append(rows, [domain |-> DomainOf(per_domain[i]),
                                    url |-> per_domain[i].url,
                                    title |-> per_domain[i].title,
                                    snippet |-> per_domain[i].snippet,
                                    emails |-> <<>>,
                                    contact_links |-> <<>>])

\* What holds of the loop whatever fetches fail: the rows are always the
\* first candidates in candidate order, and a candidate whose fetch failed
\* gets a row with empty emails and contact_links, after which the loop goes
\* on to the next candidate.
FetchIsolation == []C4_Rows /\ [][C4_Step]_vars

\* C4: whatever page fetches fail, the extraction phase ends with exactly
\* one row per capped candidate, in candidate order, each with the domain,
\* url, title and snippet of its candidate; the row of a candidate whose
\* fetch failed has empty emails and contact_links.  The code breaks this
\* when a page that WAS fetched holds an anchor whose href urljoin
\* rejects: the ValueError ends the script in the middle of the loop.
C4_AsStated ==
    /\ C4_Rows
    /\ pc = "visit" /\ i > 1 /\ FetchFailed(fetch) =>
           rows[i - 1].emails = <<>> /\ rows[i - 1].contact_links = <<>>
    /\ pc \in {"done", "raised"} => Len(rows) = Len(per_domain)

\* C5: the reported progress values never decrease over a run; those of the
\* search phase lie in [0, 30) and those of the extraction phase in
\* [30, 100].
C5_Progress ==
    /\ \A a, b \in 1..Len(progress) :
           a < b => progress[a].value <= progress[b].value
    /\ \A k \in 1..Len(progress) :
           /\ progress[k].phase = "search" =>
                  progress[k].value >= 0 /\ progress[k].value < 30
           /\ progress[k].phase = "visit" =>
                  progress[k].value >= 30 /\ progress[k].value <= 100

C5_Witness ==
    /\ pc = "done"
    /\ cfg.pages = 2
    /\ Len(per_domain) = 2
    /\ progress[Len(progress)].value = 100
    /\ \E k \in 1..Len(progress) : progress[k].value = 65
    /\ \E k \in 1..Len(progress) : progress[k].value = 27

\* a URL of the generator whose host is fn_in.host
HostIsWhole(u) ==
    /\ u.pre \in {Http, <<"H", ":", "/", "/">>, <<"/", "/">>}
    /\ u.post \in {<<>>, <<"/", "a", ".", "a">>, <<"?", "a", ".", "a">>}
    /\ "[" \notin Range(u.host)

C6_LastTwoLabels ==
    Len(fn_out) >= 1 /\ HostIsWhole(fn_in) /\ Dots(fn_in.host) >= 2 =>
        \E k \in 1..Len(fn_in.host) :
            /\ fn_in.host[k] = "."
            /\ Dots(From(fn_in.host, k)) = 1
            /\ fn_out[1] = Lower(From(fn_in.host, k))

EmailsOf(cell) == IF cell = <<>> THEN <<>> ELSE Split(cell, ";")

C7_FirstFive(E, found) ==
    /\ Len(E) <= 5
    /\ Range(E) \subseteq found
    /\ Len(E) = (IF Cardinality(found) < 5 THEN Cardinality(found) ELSE 5)
    /\ \A m \in found \ Range(E) : \A e \in Range(E) : StrLess(e, m)
    /\ \A a, b \in 1..Len(E) : a < b => StrLess(E[a], E[b])

\* C7 as stated: the emails cell holds the first five of the sorted matches,
\* and no two of its addresses are equal up to letter case.
C7_AsStated ==
    \A k \in 1..Len(rows) :
        LET E == EmailsOf(rows[k].emails)
        IN  /\ C7_FirstFive(E, Range(html.matches))
            /\ \A a, b \in 1..Len(E) : a # b => Lower(E[a]) # Lower(E[b])

\* C7, amended: the emails cell holds the matches sorted by code point and
\* de-duplicated by EXACT string (matches that differ only in letter case,
\* such as A@b.co and a@b.co, both appear), cut to the first five.
C7_Emails ==
    \A k \in 1..Len(rows) :
        C7_FirstFive(EmailsOf(rows[k].emails), Range(html.matches))

C7_Witness ==
    /\ Len(rows) = 1
    /\ Len(html.matches) = 6
    /\ Cardinality(Range(html.matches)) = 6
    /\ html.matches[1] = Mail("d")
    /\ EmailsOf(rows[1].emails) =
           <<Mail("A"), Mail("a"), Mail("a") \o <<"m">>, Mail("b"), Mail("c")>>

\* C8 as stated: every row has a non-empty domain of exactly two labels that
\* ends the host of its url.
C8_AsStated ==
    \A k \in 1..Len(rows) :
        /\ rows[k].domain # <<>>
        /\ Len(Split(rows[k].domain, ".")) = 2
        /\ EndsWith(Lower(UrlNetloc(rows[k].url)), rows[k].domain)

\* C8, amended: every row has a non-empty domain, which is the longest
\* ending of the lower-cased network location of its url that holds at most
\* one dot: the last two labels when there are two or more, and the whole
\* (one-label) location otherwise, as for http://localhost/ when
\* only_com_org is off.
C8_Domain ==
    \A k \in 1..Len(rows) :
        LET d == rows[k].domain
            h == Lower(UrlNetloc(rows[k].url))
        IN  /\ d # <<>>
            /\ EndsWith(h, d)
            /\ Dots(d) <= 1
            /\ d = h \/ (Dots(d) = 1 /\ h[Len(h) - Len(d)] = ".")

C8_Witness ==
    /\ pc = "done"
    /\ ~cfg.only_com_org
    /\ \E k \in 1..Len(rows) :
           rows[k].url = UrlA2 /\ rows[k].domain = <<"a", ".", "c", "o", "m">>
    /\ \E k \in 1..Len(rows) :
           rows[k].url = UrlLocal
           /\ rows[k].domain = <<"l", "o", "c", "a", "l", "h", "o", "s", "t">>

\* the four tests of the filter chain, as the claim words them
C9_Pass(r) ==
    LET d == DomainOf(r)
        text == Lower(r.title \o <<" ">> \o r.url \o <<" ">> \o r.snippet)
    IN  /\ d # <<>>
        /\ \A ex \in exclude_set : ~Contains(d, ex)
        /\ cfg.only_com_org =>
               \/ EndsWith(d, <<".", "c", "o", "m">>)
               \/ EndsWith(d, <<".", "o", "r", "g">>)
        /\ include_terms # <<>> =>
               \E t \in Range(include_terms) : Contains(text, t)

\* C9: a de-duplicated record reaches the cap stage exactly when its domain
\* is non-empty, holds no excluded entry as a substring, ends with .com or
\* .org if only_com_org is on, and, if there are include terms, one of them
\* occurs in its lower-cased title, url and snippet.
C9_Filter ==
    PostFilter =>
        /\ \A k \in 1..Len(deduped) :
               deduped[k] \in Range(filtered) <=> C9_Pass(deduped[k])
        /\ filtered = Restrict(deduped, Range(filtered))
        /\ cfg.excludes_str = ExcludeCsv =>
               exclude_set = {<<"b", ".", "c", "o", "m">>}
        /\ cfg.include_str = IncludeCsv => include_terms = <<Guest, <<"z">> >>

C9_Witness ==
    /\ pc = "cap"
    /\ exclude_set # {}
    /\ include_terms # <<>>
    /\ cfg.only_com_org
    /\ Urls(deduped) = {UrlWeb, UrlA2, UrlLocal}
    /\ Urls(filtered) = {UrlA2}

\* the single pass of the specification: a record that fails a test is
\* dropped before the quota is looked at
RECURSIVE C10_SinglePass(_, _, _, _)
C10_SinglePass(recs, k, counts, out) ==
    IF k > Len(recs) THEN out
    ELSE LET d == DomainOf(recs[k])
             c == IF d \in DOMAIN counts THEN counts[d] ELSE 0
         IN  IF C9_Pass(recs[k]) /\ c < cfg.max_per_domain
             THEN C10_SinglePass(recs, k + 1,
                      [x \in DOMAIN counts \cup {d} |->
                          IF x = d THEN c + 1 ELSE counts[x]],
                      Append(out, recs[k]))
             ELSE C10_SinglePass(recs, k + 1, counts, out)

\* C10: the candidates of a domain are the first min(k, max_per_domain) of
\* the k records of that domain that passed the filter, in order; a record
\* the filter dropped takes no slot, so the filter pass followed by the cap
\* pass gives what one short-circuiting pass gives.
C10_Quota ==
    PostCap =>
        /\ \A k \in 1..Len(filtered) :
               filtered[k] \in Range(per_domain) <=>
                   Cardinality({j \in 1..(k - 1) :
                                   DomainOf(filtered[j]) = DomainOf(filtered[k])})
                       < cfg.max_per_domain
        /\ per_domain = Restrict(filtered, Range(per_domain))
        /\ per_domain = C10_SinglePass(deduped, 1, <<>>, <<>>)

C10_Witness ==
    /\ pc = "visit"
    /\ cfg.max_per_domain = 1
    /\ Urls(deduped) = {UrlWeb, UrlA1, UrlA2}
    /\ Urls(filtered) = {UrlA1, UrlA2}
    /\ Len(per_domain) = 1


====
